---------------------------- MODULE Spec2Model ----------------------------
(***************************************************************************)
(* The lwIP bridge of the TCP/IP driver (lwip/src/rostcp.c): one           *)
(* CONNECTION_ENDPOINT with its PacketQueue, a reader thread in            *)
(* LibTCPGetDataFromConnectionQueue, caller threads in the LibTCP* calls,  *)
(* and the "tcpip thread", which runs the LibTCP*Callback bodies and the   *)
(* Internal*EventHandler callbacks of the engine one after the other.      *)
(*                                                                         *)
(* Granularity.  A step of a thread is the code between two points where   *)
(* it touches state another thread can see.  Code that runs with the       *)
(* connection's lock held is still interleaved with code that touches the  *)
(* same state without the lock.  List primitives (RemoveHeadList,          *)
(* InsertHeadList, IsListEmpty) are taken to be atomic.                    *)
(*                                                                         *)
(* Data.  The k-th byte the engine ever delivers for the connection has    *)
(* the value k, so a pbuf is described by the stream position before its   *)
(* first byte and by its length, and the order and identity of copied      *)
(* bytes can be checked.  The value 0 stands for a byte read from freed    *)
(* memory.                                                                 *)
(***************************************************************************)
EXTENDS Integers, Sequences, FiniteSets, TLC

\* ------------------------------------------------------------ bounds
\* Caller threads.
NumCallers == 2
\* Largest send window of the engine (tcp_sndbuf).
MaxWindow == 2
\* Longest buffer a Send passes.
MaxSendLen == 3
MaxCalls == 2
\* Segments the engine delivers in one run.
MaxSegs == 3
\* Longest payload of one segment (tot_len).
MaxSegLen == 3
\* Largest RecvLen a reader passes.
MaxRecvLen == 4
\* Datagrams under reassembly at one time.
MaxDatagrams == 2
\* Fragments of one datagram.
MaxFragments == 3

\* ------------------------------------------------------------ values
NULL == 0
\* The engine's protocol control block the connection was opened with.
PCB == 1

STATUS_SUCCESS == "STATUS_SUCCESS"
STATUS_PENDING == "STATUS_PENDING"
STATUS_FILE_CLOSED == "STATUS_FILE_CLOSED"
\* The value of the local Status of a read before any assignment to it.
STATUS_UNINIT == "uninitialized"

ERR_OK == "ERR_OK"
ERR_MEM == "ERR_MEM"
ERR_INPROGRESS == "ERR_INPROGRESS"
ERR_USE == "ERR_USE"
ERR_ABRT == "ERR_ABRT"
ERR_RST == "ERR_RST"
ERR_CLSD == "ERR_CLSD"
ERR_CONN == "ERR_CONN"

TcpStates == {"CLOSED", "LISTEN", "SYN_SENT", "SYN_RCVD", "ESTABLISHED", "FIN_WAIT_1",
              "FIN_WAIT_2", "CLOSE_WAIT", "CLOSING", "LAST_ACK", "TIME_WAIT"}

Threads == 1..NumCallers

\* Sweeps of the reassembly timer before an IPDR is destroyed.
MAX_TIMEOUT_COUNT == 3

\* The identities of the datagrams under reassembly, and where their fragments lie.
Idents == 1..MaxDatagrams
FragmentOffsets == 1..MaxFragments

\* Errors the engine reports through the tcp_err callback.
FatalErrs == {ERR_ABRT, ERR_RST}

\* The translation of an engine error to a status: one status per error.
TCPTranslateError(err) ==
    CASE err = ERR_OK -> STATUS_SUCCESS
      [] err = ERR_INPROGRESS -> STATUS_PENDING
      [] err = ERR_ABRT -> "STATUS_LOCAL_DISCONNECT"
      [] err = ERR_RST -> "STATUS_REMOTE_DISCONNECT"
      [] err = ERR_CLSD -> STATUS_FILE_CLOSED
      [] OTHER -> "STATUS_UNSUCCESSFUL"

MIN(a, b) == IF a < b THEN a ELSE b

\* A number that was not written.
Unset == 0 - 1

\* A request that is not allocated, and one as LibTCP* fills it in before it is
\* submitted: the event is initialised unsignalled, the outputs are not initialised.
\* a and b are the inputs of the operation.  Three fields are not in the C structure:
\* safe (the caller runs the body itself), afterEnd (the call began after
\* TerminationEvent was signalled) and doneAfterEnd (its body ended after that).
NoMsg == [op |-> "none", live |-> FALSE, Event |-> FALSE, a |-> 0, b |-> 0,
          Error |-> "unset", Info |-> Unset, NewPcb |-> NULL,
          safe |-> FALSE, afterEnd |-> FALSE, doneAfterEnd |-> FALSE]
NewMsg(op, a, b) == [NoMsg EXCEPT !.op = op, !.live = TRUE, !.a = a, !.b = b]

\* What a call returned: an err_t, or a pcb for Socket and Listen, and *sent for Send;
\* afterEnd is the field of its request.
NoRet == [op |-> "none", err |-> "none", pcb |-> NULL, sent |-> 0, afterEnd |-> FALSE]

\* No queue entry (a NULL PQUEUE_ENTRY).
NoEntry == [p |-> NULL, Offset |-> 0]

VARIABLES
    \* CONNECTION_ENDPOINT
    SocketContext,          \* the engine-side handle: PCB or NULL
    PacketQueue,            \* sequence of QUEUE_ENTRY [p, Offset], head first
    ReceiveShutdown,
    ReceiveShutdownStatus,
    SendShutdown,
    Lock,                   \* who holds Connection->Lock: "none", "reader", "tcpip"
    \* pbuf heap
    pbufs,                  \* pbufs[i]: [first, tot_len] of the i-th delivered pbuf
    freeCount,              \* freeCount[i]: how often pbuf i (and its entry) was freed
    \* the reader thread, in LibTCPGetDataFromConnectionQueue
    rpc,                    \* "idle", "dequeue", "pushback", "copy", "done"
    RecvLen, Received, RecvBuffer, qp, p, ReadLength, Offset, Status,
    delivered,              \* stream bytes returned by completed reads
    assertFailed,           \* the ASSERTs of the read that did not hold
    uaf,                    \* the read copied from a pbuf that was already freed
    \* the tcpip thread
    tpc,                    \* "idle" or the place inside the running handler
    tcur,                   \* the handler's locals
    notes,                  \* what the last handler did outward, in order
    pcbLife,                \* the engine's connection: "open", "fin" (peer closed), "dead"
    \* the engine's pcb
    pcbState,               \* pcb->state
    sndbuf,                 \* tcp_sndbuf(pcb)
    \* caller threads and their requests
    cpc,                    \* cpc[t]: "idle", "inline", "issued", "blocked", "woken", "done"
    msg,                    \* msg[t]: the lwip_callback_msg of thread t's call
    wake,                   \* wake[t]: what WaitForEventSafely returned
    ret,                    \* ret[t]: what the call returned
    mbox,                   \* callbacks queued for the tcpip thread, oldest first
    TerminationEvent,
    staleRun,               \* the tcpip thread ran a callback on a released request
    calls,                  \* how many calls were made so far
    \* IP reassembly
    ReassemblyList,         \* the identities that have an IPDATAGRAM_REASSEMBLY
    Fragments,              \* Fragments[id]: the offsets on its fragment list
    TimeoutCount,           \* TimeoutCount[id]: its timeout counter
    fragsInUse,             \* IP_FRAGMENT descriptors allocated and not freed
    sweepsSince             \* sweepsSince[id]: sweeps since id's last accepted fragment

connVars == <<SocketContext, PacketQueue, ReceiveShutdown, ReceiveShutdownStatus,
              SendShutdown, Lock>>
heapVars == <<pbufs, freeCount>>
readerVars == <<rpc, RecvLen, Received, RecvBuffer, qp, p, ReadLength, Offset,
                Status, delivered, assertFailed, uaf>>
tcpipVars == <<tpc, tcur, notes, pcbLife>>

engineVars == <<pcbState, sndbuf>>
bridgeVars == <<cpc, msg, wake, ret, mbox, TerminationEvent, staleRun, calls>>

reassVars == <<ReassemblyList, Fragments, TimeoutCount, fragsInUse, sweepsSince>>

vars == <<connVars, heapVars, readerVars, tcpipVars, engineVars, bridgeVars, reassVars>>

\* ------------------------------------------------------------ pbufs
\* Bytes delivered so far: the stream position after the last pbuf.
TotalBytes == IF pbufs = <<>> THEN 0
              ELSE pbufs[Len(pbufs)].first + pbufs[Len(pbufs)].tot_len

\* pbuf_copy_partial(p, buf, len, offset) on a live pbuf: its bytes offset+1..offset+len.
PbufBytes(id, offset, len) == [i \in 1..len |-> pbufs[id].first + offset + i]

\* What a copy from a freed pbuf can yield: the old bytes, or other memory.
FreedBytes(id, offset, len) == {PbufBytes(id, offset, len), [i \in 1..len |-> 0]}

\* The unconsumed bytes of a queue, head first.
RECURSIVE QueueStream(_)
QueueStream(q) ==
    IF q = <<>> THEN <<>>
    ELSE PbufBytes(Head(q).p, Head(q).Offset,
                   pbufs[Head(q).p].tot_len - Head(q).Offset)
         \o QueueStream(Tail(q))

QueueBytes(q) == Len(QueueStream(q))

\* The stream positions from+1 .. from+n.
Run(from, n) == [i \in 1..n |-> from + i]

\* ------------------------------------------------------------ reader
\* LibTCPDequeuePacket: the head entry, or NULL from an empty list.
LibTCPDequeuePacket(q) == IF q = <<>> THEN NoEntry ELSE Head(q)

\* A read that takes the whole rest of an entry, whatever room the buffer has.
ReadLengthWhole(PayloadLength, len) == PayloadLength

\* The length one pass of the loop reads from an entry.
ReadLengthOf(PayloadLength, len) == MIN(PayloadLength, len)

\* A read that takes either shutdown flag for the end of the data.
EmptyQueueStatusAnyFlag ==
    IF ReceiveShutdown \/ SendShutdown THEN ReceiveShutdownStatus ELSE STATUS_PENDING

\* The status a read returns from an empty queue.
EmptyQueueStatus == IF ReceiveShutdown THEN ReceiveShutdownStatus ELSE STATUS_PENDING

\* The read returns: the lock is released, the caller has Status and Received, and the
\* locals of the loop are gone.
GetData_Return(received) ==
    /\ rpc' = "done"
    /\ Lock' = "none"
    /\ delivered' = delivered + received
    /\ qp' = NoEntry
    /\ p' = NULL
    /\ ReadLength' = 0
    /\ Offset' = 0

\* Lines 93-97 and 151-161: take the lock and test the list; an empty list ends the read.
GetData_Begin(len) ==
    /\ rpc \in {"idle", "done"}
    /\ Lock = "none"
    /\ Received' = 0
    /\ RecvLen' = len
    /\ RecvBuffer' = <<>>
    /\ IF PacketQueue # <<>>
       THEN /\ rpc' = "dequeue"
            /\ Lock' = "reader"
            /\ Status' = STATUS_UNINIT
            /\ UNCHANGED <<delivered, qp, p, ReadLength, Offset>>
       ELSE /\ Status' = EmptyQueueStatus
            /\ GetData_Return(0)
    /\ UNCHANGED <<bridgeVars, engineVars, SocketContext, PacketQueue, ReceiveShutdown, ReceiveShutdownStatus,
                   SendShutdown, heapVars, assertFailed, uaf, tcpipVars>>
    /\ UNCHANGED reassVars

\* Lines 99-110 (and 119 when the whole entry is read): take the head entry off the list.
GetData_Dequeue ==
    /\ rpc = "dequeue"
    /\ LET e == LibTCPDequeuePacket(PacketQueue)
           PayloadLength == pbufs[e.p].tot_len - e.Offset
           rl == ReadLengthOf(PayloadLength, RecvLen)
       IN IF e = NoEntry
          THEN /\ GetData_Return(Received)
               /\ UNCHANGED <<PacketQueue, assertFailed>>
          ELSE /\ PacketQueue' = Tail(PacketQueue)
               /\ qp' = e
               /\ p' = e.p
               /\ Offset' = e.Offset
               /\ ReadLength' = rl
               /\ assertFailed' = IF rl # 0 THEN assertFailed
                                  ELSE assertFailed \cup {"ReadLength != 0"}
               /\ IF rl # PayloadLength
                  THEN rpc' = "pushback" /\ UNCHANGED Lock
                  ELSE rpc' = "copy" /\ Lock' = "none"
               /\ UNCHANGED delivered
    /\ UNCHANGED <<bridgeVars, engineVars, SocketContext, ReceiveShutdown, ReceiveShutdownStatus, SendShutdown,
                   heapVars, RecvLen, Received, RecvBuffer, Status, uaf, tcpipVars>>
    /\ UNCHANGED reassVars

\* Lines 111-119: the entry is only partly read; put it back as the head, release the lock.
GetData_PushBack ==
    /\ rpc = "pushback"
    /\ PacketQueue' = <<[p |-> qp.p, Offset |-> qp.Offset + ReadLength]>> \o PacketQueue
    /\ qp' = NoEntry
    /\ Lock' = "none"
    /\ rpc' = "copy"
    /\ UNCHANGED <<bridgeVars, engineVars, SocketContext, ReceiveShutdown, ReceiveShutdownStatus, SendShutdown,
                   heapVars, RecvLen, Received, RecvBuffer, p, ReadLength, Offset,
                   Status, delivered, assertFailed, uaf, tcpipVars>>
    /\ UNCHANGED reassVars

\* Lines 121-149: copy with the lock released, take the lock again, update the trackers,
\* free a fully read entry, and leave the loop when the caller's buffer is full.
GetData_Copy ==
    /\ rpc = "copy"
    /\ Lock = "none"
    /\ \E bytes \in IF freeCount[p] = 0 THEN {PbufBytes(p, Offset, ReadLength)}
                    ELSE FreedBytes(p, Offset, ReadLength) :
          RecvBuffer' = RecvBuffer \o bytes
    /\ uaf' = (uaf \/ freeCount[p] # 0)
    /\ RecvLen' = RecvLen - ReadLength
    /\ Received' = Received + ReadLength
    /\ freeCount' = IF qp # NoEntry
                    THEN [freeCount EXCEPT ![qp.p] = @ + 1]
                    ELSE freeCount
    /\ assertFailed' = assertFailed
                       \cup (IF qp = NoEntry /\ RecvLen' # 0 THEN {"RecvLen == 0"} ELSE {})
                       \cup (IF Received' = 0 THEN {"(*Received) != 0"} ELSE {})
    /\ Status' = STATUS_SUCCESS
    /\ IF RecvLen' = 0
       THEN /\ GetData_Return(Received')
       ELSE /\ rpc' = "dequeue"
            /\ Lock' = "reader"
            /\ qp' = NoEntry
            /\ UNCHANGED <<delivered, p, ReadLength, Offset>>
    /\ UNCHANGED <<bridgeVars, engineVars, SocketContext, PacketQueue, ReceiveShutdown, ReceiveShutdownStatus,
                   SendShutdown, pbufs, tcpipVars>>
    /\ UNCHANGED reassVars

\* ------------------------------------------------------------ engine callbacks
\* Outward notifications and engine calls a handler makes, as entries of notes.
\* An entry is the function, its arguments and, for an engine call whose answer the
\* handler uses, the answer.
Called(fn, args) == <<fn, args, "">>
Answered(fn, args, r) == <<fn, args, r>>
RecvEvent == Called("TCPRecvEventHandler", <<>>)
FinEvent(err) == Called("TCPFinEventHandler", <<err>>)
Enqueued(id) == Called("LibTCPEnqueuePacket", <<id>>)
Recved(len) == Called("tcp_recved", <<len>>)
PbufFreed == Called("pbuf_free", <<>>)

\* The locals of the tcpip thread between two handlers: the thread whose request it
\* runs, whether that request was released meanwhile, the error and the pcb it read.
NoCur == [t |-> 0, stale |-> FALSE, err |-> ERR_OK, pcb |-> NULL]

\* An enqueue that inserts the new entry at the head.
LibTCPEnqueuePacketAtHead(q, id) == <<[p |-> id, Offset |-> 0]>> \o q

\* LibTCPEnqueuePacket: a new entry with Offset 0 at the tail, inserted under the lock.
LibTCPEnqueuePacket(q, id) == Append(q, [p |-> id, Offset |-> 0])

\* InternalRecvEventHandler with a payload p of len bytes (lines 203-223).
InternalRecvEventHandler_Data(arg, len) ==
    /\ tpc = "idle"
    /\ pcbLife = "open"
    /\ Len(pbufs) < MaxSegs
    /\ IF arg = NULL
       THEN /\ notes' = <<PbufFreed>>
            /\ UNCHANGED <<PacketQueue, heapVars>>
       ELSE /\ Lock = "none"
            /\ pbufs' = Append(pbufs, [first |-> TotalBytes, tot_len |-> len])
            /\ freeCount' = Append(freeCount, 0)
            /\ PacketQueue' = LibTCPEnqueuePacket(PacketQueue, Len(pbufs) + 1)
            /\ notes' = <<Enqueued(Len(pbufs) + 1), Recved(len), RecvEvent>>
    /\ UNCHANGED <<bridgeVars, engineVars, SocketContext, ReceiveShutdown, ReceiveShutdownStatus, SendShutdown,
                   Lock, rpc, RecvLen, Received, RecvBuffer, qp, p, ReadLength, Offset,
                   Status, delivered, assertFailed, uaf, tpc, tcur, pcbLife>>
    /\ UNCHANGED reassVars

\* InternalRecvEventHandler without payload (lines 203-214, 224-247): with err == ERR_OK
\* the peer has closed; the flag is written first, without the lock.
InternalRecvEventHandler_Null(arg, err) ==
    /\ tpc = "idle"
    /\ pcbLife = "open"
    /\ notes' = <<>>
    /\ IF arg # NULL /\ err = ERR_OK
       THEN /\ ReceiveShutdown' = TRUE
            /\ tpc' = "recv_status"
            /\ pcbLife' = "fin"
       ELSE UNCHANGED <<ReceiveShutdown, tpc, pcbLife>>
    /\ UNCHANGED <<bridgeVars, engineVars, SocketContext, PacketQueue, ReceiveShutdownStatus, SendShutdown, Lock,
                   heapVars, readerVars, tcur>>
    /\ UNCHANGED reassVars

\* A handler that takes every close for one the local side began.
CloseNotificationFin(handle) == FinEvent(ERR_CLSD)

\* Lines 235-244: the notification of a close, by who began it.
CloseNotification(handle) == IF handle # NULL THEN RecvEvent ELSE FinEvent(ERR_CLSD)

\* Lines 231-245: the stored status, then one notification.
InternalRecvEventHandler_Status ==
    /\ tpc = "recv_status"
    /\ ReceiveShutdownStatus' = STATUS_SUCCESS
    /\ notes' = <<CloseNotification(SocketContext)>>
    /\ tpc' = "idle"
    /\ UNCHANGED <<bridgeVars, engineVars, SocketContext, PacketQueue, ReceiveShutdown, SendShutdown, Lock,
                   heapVars, readerVars, tcur, pcbLife>>
    /\ UNCHANGED reassVars

\* A handler that delivers every fatal error at once.
DeliverErrorAlways(q) == TRUE

\* Whether the fatal-error handler delivers the error at once.
DeliverErrorNow(q) == q = <<>>

\* InternalErrorEventHandler (lines 282-301): the emptiness test under the lock, and the
\* immediate delivery when nothing is queued.
InternalErrorEventHandler(arg, err) ==
    /\ tpc = "idle"
    /\ pcbLife # "dead"
    /\ pcbLife' = "dead"
    /\ IF arg = NULL
       THEN /\ notes' = <<>>
            /\ UNCHANGED <<tpc, tcur>>
       ELSE /\ Lock = "none"
            /\ IF DeliverErrorNow(PacketQueue)
               THEN /\ notes' = <<FinEvent(err)>>
                    /\ UNCHANGED <<tpc, tcur>>
               ELSE /\ notes' = <<>>
                    /\ tpc' = "err_flag"
                    /\ tcur' = [NoCur EXCEPT !.err = err]
    /\ UNCHANGED <<bridgeVars, engineVars, connVars, heapVars, readerVars>>
    /\ UNCHANGED reassVars

\* Line 304: the deferred error, the flag first.
InternalErrorEventHandler_Flag ==
    /\ tpc = "err_flag"
    /\ ReceiveShutdown' = TRUE
    /\ tpc' = "err_status"
    /\ UNCHANGED <<bridgeVars, engineVars, SocketContext, PacketQueue, ReceiveShutdownStatus, SendShutdown, Lock,
                   heapVars, readerVars, tcur, notes, pcbLife>>
    /\ UNCHANGED reassVars

\* Lines 305-307: the translated status, then "data available".
InternalErrorEventHandler_Status ==
    /\ tpc = "err_status"
    /\ ReceiveShutdownStatus' = TCPTranslateError(tcur.err)
    /\ notes' = <<RecvEvent>>
    /\ tpc' = "idle"
    /\ tcur' = NoCur
    /\ UNCHANGED <<bridgeVars, engineVars, SocketContext, PacketQueue, ReceiveShutdown, SendShutdown, Lock,
                   heapVars, readerVars, pcbLife>>
    /\ UNCHANGED reassVars

\* ------------------------------------------------------------ the calls
TCP_WRITE_FLAG_COPY == "COPY"
TCP_WRITE_FLAG_MORE == "COPY|MORE"

\* A wait that takes every end for the caller's event.
WaitIgnoresTermination(event, termination) == TRUE

\* A wait in which the termination event comes first.
WaitTerminationFirst(event, termination) == event /\ ~termination

\* WaitForEventSafely (lines 166-187): the wait on {Event, TerminationEvent} is over as
\* soon as one of the two is signalled; it is TRUE when the caller's own event, object 0
\* of the wait, satisfied it.
WaitForEventSafely(event, termination) == event

\* What a LibTCP* call returns after its wait: the output of the body when its own event
\* ended the wait, "closed" otherwise; *sent is the Information only with ERR_OK.
ReturnValue(m, woke) ==
    LET err == IF woke THEN m.Error ELSE ERR_CLSD
    IN CASE m.op \in {"Socket", "Listen"} ->
              [op |-> m.op, err |-> "none", pcb |-> IF woke THEN m.NewPcb ELSE NULL,
               sent |-> 0, afterEnd |-> m.afterEnd]
         [] m.op = "Send" ->
              [op |-> m.op, err |-> err, pcb |-> NULL,
               sent |-> IF err = ERR_OK THEN m.Info ELSE 0, afterEnd |-> m.afterEnd]
         [] OTHER -> [op |-> m.op, err |-> err, pcb |-> NULL, sent |-> 0,
                      afterEnd |-> m.afterEnd]

\* The call returns to its caller; the request goes back to MessageLookasideList, whether
\* or not the tcpip thread still holds it.
Finish(t, woke) ==
    /\ ret' = [ret EXCEPT ![t] = ReturnValue(msg[t], woke)]
    /\ wake' = [wake EXCEPT ![t] = FALSE]
    /\ cpc' = [cpc EXCEPT ![t] = "done"]
    /\ msg' = [msg EXCEPT ![t] = NoMsg]
    /\ mbox' = [i \in 1..Len(mbox) |->
                   IF mbox[i].t = t THEN [mbox[i] EXCEPT !.stale = TRUE] ELSE mbox[i]]
    /\ tcur' = IF tcur.t = t THEN [tcur EXCEPT !.stale = TRUE] ELSE tcur

\* The allocation of the request fails: ERR_MEM, or NULL from Socket and Listen; *sent
\* is not written.
NoMemory(t, op) ==
    /\ cpc[t] \in {"idle", "done"}
    /\ calls < MaxCalls
    /\ calls' = calls + 1
    /\ ret' = [ret EXCEPT ![t] =
                  [op |-> op, err |-> IF op \in {"Socket", "Listen"} THEN "none" ELSE ERR_MEM,
                   pcb |-> NULL, sent |-> IF op = "Send" THEN Unset ELSE 0,
                   afterEnd |-> TerminationEvent]]
    /\ cpc' = [cpc EXCEPT ![t] = "done"]
    /\ UNCHANGED <<connVars, heapVars, readerVars, tcpipVars, engineVars, msg, wake, mbox,
                   TerminationEvent, staleRun>>
    /\ UNCHANGED reassVars

\* The request is allocated, filled in and handed to the tcpip thread with
\* tcpip_callback_with_block (safe = FALSE), or its body is run by the caller, who is
\* then the tcpip thread itself (safe = TRUE, Send and Close only).
Submit(t, op, a, b, safe) ==
    /\ cpc[t] \in {"idle", "done"}
    /\ calls < MaxCalls
    /\ calls' = calls + 1
    /\ msg' = [msg EXCEPT ![t] = [NewMsg(op, a, b) EXCEPT !.safe = safe,
                                                         !.afterEnd = TerminationEvent]]
    /\ IF safe
       THEN /\ tpc = "idle"
            /\ tpc' = op
            /\ tcur' = [NoCur EXCEPT !.t = t]
            /\ notes' = <<>>
            /\ cpc' = [cpc EXCEPT ![t] = "inline"]
            /\ UNCHANGED mbox
       ELSE /\ mbox' = Append(mbox, [t |-> t, op |-> op, stale |-> FALSE])
            /\ cpc' = [cpc EXCEPT ![t] = "issued"]
            /\ UNCHANGED <<tpc, tcur, notes>>
    /\ ret' = [ret EXCEPT ![t] = NoRet]
    /\ UNCHANGED <<connVars, heapVars, readerVars, pcbLife, engineVars, wake,
                   TerminationEvent, staleRun>>
    /\ UNCHANGED reassVars

LibTCPSocket(t) == Submit(t, "Socket", 0, 0, FALSE)
LibTCPBind(t) == Submit(t, "Bind", 0, 0, FALSE)
LibTCPListen(t) == Submit(t, "Listen", 0, 0, FALSE)
LibTCPConnect(t) == Submit(t, "Connect", 0, 0, FALSE)
LibTCPSend(t, len, safe) == Submit(t, "Send", len, 0, safe)
LibTCPShutdown(t, shut_rx, shut_tx) == Submit(t, "Shutdown", shut_rx, shut_tx, FALSE)
LibTCPClose(t, safe, callback) == Submit(t, "Close", 0, callback, safe)

\* A wait that misses an event signalled before it began.
WaitLosesSignal(t) ==
    /\ cpc[t] = "issued"
    /\ cpc' = [cpc EXCEPT ![t] = "blocked"]
    /\ UNCHANGED <<connVars, heapVars, readerVars, tcpipVars, engineVars, msg, wake, ret,
                   mbox, TerminationEvent, staleRun, calls>>
    /\ UNCHANGED reassVars

\* The caller reaches WaitForEventSafely: it returns at once when an event is already
\* signalled, and blocks otherwise.
Wait(t) ==
    /\ cpc[t] = "issued"
    /\ IF msg[t].Event \/ TerminationEvent
       THEN Finish(t, WaitForEventSafely(msg[t].Event, TerminationEvent))
       ELSE /\ cpc' = [cpc EXCEPT ![t] = "blocked"]
            /\ UNCHANGED <<msg, wake, ret, mbox, tcur>>
    /\ UNCHANGED <<connVars, heapVars, readerVars, tpc, notes, pcbLife, engineVars,
                   TerminationEvent, staleRun, calls>>
    /\ UNCHANGED reassVars

\* A woken caller reads the outputs and releases the request.
Return(t) ==
    /\ cpc[t] = "woken"
    /\ Finish(t, wake[t])
    /\ UNCHANGED <<connVars, heapVars, readerVars, tpc, notes, pcbLife, engineVars,
                   TerminationEvent, staleRun, calls>>
    /\ UNCHANGED reassVars

\* TerminationEvent is signalled, once and for good: every blocked wait is over.
Terminate ==
    /\ ~TerminationEvent
    /\ TerminationEvent' = TRUE
    /\ cpc' = [t \in Threads |-> IF cpc[t] = "blocked" THEN "woken" ELSE cpc[t]]
    /\ wake' = [t \in Threads |->
                   IF cpc[t] = "blocked" THEN WaitForEventSafely(msg[t].Event, TRUE)
                   ELSE wake[t]]
    /\ UNCHANGED <<connVars, heapVars, readerVars, tcpipVars, engineVars, msg, ret, mbox,
                   staleRun, calls>>
    /\ UNCHANGED reassVars

\* The tcpip thread takes the oldest queued callback.
tcpip_thread ==
    /\ tpc = "idle"
    /\ mbox # <<>>
    /\ tpc' = Head(mbox).op
    /\ tcur' = [NoCur EXCEPT !.t = Head(mbox).t, !.stale = Head(mbox).stale]
    /\ mbox' = Tail(mbox)
    /\ notes' = <<>>
    /\ UNCHANGED <<connVars, heapVars, readerVars, pcbLife, engineVars, cpc, msg, wake, ret,
                   TerminationEvent, staleRun, calls>>
    /\ UNCHANGED reassVars

\* KeSetEvent(&msg->Event) at the end of a body: the outputs m are in the request, its
\* event is signalled, a caller blocked on it is woken, the tcpip thread is free again.
Complete(m) ==
    LET t == tcur.t
    IN /\ msg' = [msg EXCEPT ![t] = [m EXCEPT !.Event = TRUE,
                                              !.doneAfterEnd = TerminationEvent]]
       /\ cpc' = [cpc EXCEPT ![t] = IF @ = "inline" THEN "issued"
                                    ELSE IF @ = "blocked" THEN "woken" ELSE @]
       /\ wake' = [wake EXCEPT ![t] = IF cpc[t] = "blocked"
                                      THEN WaitForEventSafely(TRUE, TerminationEvent)
                                      ELSE @]
       /\ tpc' = "idle"
       /\ tcur' = NoCur

\* The body of a request that its caller has released already: it reads and writes
\* memory that is no longer the request.  The model records that this happened and
\* follows the body no further.
StaleCallback ==
    /\ tpc \in {"Socket", "Bind", "Listen", "Connect", "Send", "Shutdown", "Close",
                "close_rest", "shut_status"}
    /\ tcur.stale
    /\ staleRun' = TRUE
    /\ tpc' = "idle"
    /\ tcur' = NoCur
    /\ UNCHANGED <<connVars, heapVars, readerVars, notes, pcbLife, engineVars, cpc, msg,
                   wake, ret, mbox, TerminationEvent, calls>>
    /\ UNCHANGED reassVars

\* ------------------------------------------------------------ Send
\* A Send that never finds the window closed.
WindowNeverClosed(space) == FALSE

\* Line 487: the send window is closed.
WindowClosed(space) == space = 0

\* A Send that writes the whole request whatever the window.
SendLengthAll(DataLength, space) == DataLength

\* Lines 493-502: how much of the request fits the send window, and the write flags.
SendLengthOf(DataLength, space) == IF space < DataLength THEN space ELSE DataLength
SendFlagsOf(DataLength, space) ==
    IF space < DataLength THEN TCP_WRITE_FLAG_MORE ELSE TCP_WRITE_FLAG_COPY

\* msg->Input.Send.Data: the start of the caller's buffer.
Data == "Data"

\* What tcp_write can answer.
WriteResults == {ERR_OK, ERR_MEM, ERR_CONN}

\* A Send that does not look at the write-shutdown flag.
SendRefusedNoHandle(handle, sendShutdown) == handle = NULL

\* Lines 475-485: the Send is refused, the handle is null or the send side is shut down.
SendRefused(handle, sendShutdown) == handle = NULL \/ sendShutdown

\* LibTCPSendCallback (lines 466-522).
LibTCPSendCallback ==
    /\ tpc = "Send"
    /\ ~tcur.stale
    /\ LET m == msg[tcur.t]
           SendLength == SendLengthOf(m.a, sndbuf)
       IN IF SendRefused(SocketContext, SendShutdown)
          THEN /\ Complete([m EXCEPT !.Error = ERR_CLSD])
               /\ UNCHANGED <<notes, sndbuf>>
          ELSE IF WindowClosed(sndbuf)
          THEN /\ Complete([m EXCEPT !.Error = ERR_INPROGRESS])
               /\ UNCHANGED <<notes, sndbuf>>
          ELSE \E r \in WriteResults :
                 /\ notes' = <<Answered("tcp_write",
                                        <<Data, SendLength, SendFlagsOf(m.a, sndbuf)>>, r)>>
                              \o (IF r = ERR_OK THEN <<Called("tcp_output", <<>>)>>
                                  ELSE <<>>)
                 /\ sndbuf' = IF r = ERR_OK THEN sndbuf - SendLength ELSE sndbuf
                 /\ Complete([m EXCEPT
                        !.Error = IF r = ERR_MEM THEN ERR_INPROGRESS ELSE r,
                        !.Info = IF r = ERR_OK THEN SendLength ELSE @])
    /\ UNCHANGED <<connVars, heapVars, readerVars, pcbLife, pcbState, ret, mbox,
                   TerminationEvent, staleRun, calls>>
    /\ UNCHANGED reassVars

\* InternalSendEventHandler (lines 191-199): the peer has acknowledged data, the send
\* window has grown to space.
InternalSendEventHandler(arg, space) ==
    /\ tpc = "idle"
    /\ space > sndbuf
    /\ sndbuf' = space
    /\ notes' = IF arg = NULL THEN <<>>
                ELSE <<Called("TCPSendEventHandler", <<space>>)>>
    /\ UNCHANGED <<connVars, heapVars, readerVars, tpc, tcur, pcbLife, pcbState,
                   bridgeVars>>
    /\ UNCHANGED reassVars

\* ------------------------------------------------------------ Close
\* LibTCPCloseCallback, line 695: the handle is read once, before the queue is emptied.
LibTCPCloseCallback ==
    /\ tpc = "Close"
    /\ ~tcur.stale
    /\ tcur' = [tcur EXCEPT !.pcb = SocketContext]
    /\ tpc' = "empty_queue"
    /\ notes' = <<Called("LibTCPEmptyQueue", <<>>)>>
    /\ UNCHANGED <<connVars, heapVars, readerVars, pcbLife, engineVars, bridgeVars>>
    /\ UNCHANGED reassVars

\* LibTCPEmptyQueue (lines 39-58), one pass of its loop: the head entry is removed and
\* freed with its pbuf.  Connection->Lock is neither tested nor taken.
LibTCPEmptyQueue ==
    /\ tpc = "empty_queue"
    /\ IF PacketQueue # <<>>
       THEN /\ PacketQueue' = Tail(PacketQueue)
            /\ freeCount' = [freeCount EXCEPT ![Head(PacketQueue).p] = @ + 1]
            /\ UNCHANGED tpc
       ELSE /\ tpc' = "close_rest"
            /\ UNCHANGED <<PacketQueue, freeCount>>
    /\ UNCHANGED <<SocketContext, ReceiveShutdown, ReceiveShutdownStatus, SendShutdown,
                   Lock, pbufs, readerVars, tcur, notes, pcbLife, engineVars, bridgeVars>>
    /\ UNCHANGED reassVars

\* What tcp_close can answer.
CloseResults == {ERR_OK, ERR_MEM}

\* A Close that writes the handle back whatever the engine answers.
HandleRestored(Error, pcb) == pcb

\* A Close that leaves the handle cleared whatever the engine answers.
HandleSevered(Error, pcb) == NULL

\* Lines 707 and 738-742: the handle is cleared before the engine is called and restored
\* when the engine reports an error.
HandleAfterClose(Error, pcb) == IF Error # ERR_OK THEN pcb ELSE NULL

\* A Close that looks at the flags in every state.
ClosesAtOnceNever(state) == FALSE

\* Line 709: the states in which the connection is closed without looking at the flags.
ClosesAtOnce(state) == state \in {"CLOSED", "LISTEN", "SYN_SENT"}

\* Lines 721-722: the connection is aborted.
AbortsOnClose(state, sendShutdown, receiveShutdown) ==
    ~ClosesAtOnce(state) /\ sendShutdown /\ receiveShutdown

\* A Close that notifies after every successful close it was asked to notify.
NotifiesOnCloseAlways(state, Error, Callback) == Error = ERR_OK /\ Callback # 0

\* Lines 709-717: the body itself calls TCPFinEventHandler.
NotifiesOnClose(state, Error, Callback) ==
    ClosesAtOnce(state) /\ Error = ERR_OK /\ Callback # 0

\* LibTCPCloseCallback, lines 700-745.
LibTCPCloseCallback_Rest ==
    /\ tpc = "close_rest"
    /\ ~tcur.stale
    /\ LET m == msg[tcur.t]
           pcb == tcur.pcb
       IN IF SocketContext = NULL
          THEN /\ Complete([m EXCEPT !.Error = ERR_OK])
               /\ UNCHANGED <<SocketContext, notes, pcbLife>>
          ELSE IF AbortsOnClose(pcbState, SendShutdown, ReceiveShutdown)
          THEN /\ notes' = Append(notes, Called("tcp_abort", <<pcb>>))
               /\ SocketContext' = HandleAfterClose(ERR_OK, pcb)
               /\ pcbLife' = "dead"
               /\ Complete([m EXCEPT !.Error = ERR_OK])
          ELSE \E r \in CloseResults :
                 /\ notes' = Append(notes, Answered("tcp_close", <<pcb>>, r))
                             \o (IF NotifiesOnClose(pcbState, r, m.b)
                                 THEN <<FinEvent(ERR_CLSD)>> ELSE <<>>)
                 /\ SocketContext' = HandleAfterClose(r, pcb)
                 /\ UNCHANGED pcbLife
                 /\ Complete([m EXCEPT !.Error = r])
    /\ UNCHANGED <<PacketQueue, ReceiveShutdown, ReceiveShutdownStatus, SendShutdown, Lock,
                   heapVars, readerVars, engineVars, ret, mbox, TerminationEvent, staleRun, calls>>
    /\ UNCHANGED reassVars

\* ------------------------------------------------------------ Shutdown
\* What tcp_shutdown can answer.
ShutdownResults == {ERR_OK, ERR_CONN}

\* A Shutdown that never severs the handle.
HandleKept(Error, state, pcb) == pcb

\* Lines 633-643: the handle after the engine call.
HandleAfterShutdown(Error, state, pcb) ==
    IF Error = ERR_OK /\ state = "CLOSE_WAIT" THEN NULL ELSE pcb

\* A Shutdown that marks the send side whatever the engine answered.
SendShutdownAnyResult(flag, Error, shut_tx) == flag \/ shut_tx # 0

\* Lines 640-653: the write-shutdown flag after the engine call.
SendShutdownAfter(flag, Error, shut_tx) == flag \/ (Error = ERR_OK /\ shut_tx # 0)

\* LibTCPShutdownCallback, lines 625-648: up to the write of ReceiveShutdown.
LibTCPShutdownCallback ==
    /\ tpc = "Shutdown"
    /\ ~tcur.stale
    /\ LET m == msg[tcur.t]
           pcb == SocketContext
       IN IF SocketContext = NULL
          THEN /\ Complete([m EXCEPT !.Error = ERR_CLSD])
               /\ UNCHANGED <<SocketContext, ReceiveShutdown, SendShutdown, notes>>
          ELSE \E r \in ShutdownResults :
                 /\ notes' = <<Answered("tcp_shutdown", <<pcb, m.a, m.b>>, r)>>
                 /\ SocketContext' = HandleAfterShutdown(r, pcbState, pcb)
                 /\ IF r = ERR_OK /\ m.a # 0
                    THEN /\ ReceiveShutdown' = TRUE
                         /\ tpc' = "shut_status"
                         /\ msg' = [msg EXCEPT ![tcur.t] = [m EXCEPT !.Error = r]]
                         /\ UNCHANGED <<SendShutdown, tcur, cpc, wake>>
                    ELSE /\ SendShutdown' = SendShutdownAfter(SendShutdown, r, m.b)
                         /\ UNCHANGED ReceiveShutdown
                         /\ Complete([m EXCEPT !.Error = r])
    /\ UNCHANGED <<PacketQueue, ReceiveShutdownStatus, Lock, heapVars, readerVars, pcbLife,
                   engineVars, ret, mbox, TerminationEvent, staleRun, calls>>
    /\ UNCHANGED reassVars

\* LibTCPShutdownCallback, lines 649-657: the status of the closed receive side, then
\* the send side.
LibTCPShutdownCallback_Status ==
    /\ tpc = "shut_status"
    /\ ~tcur.stale
    /\ ReceiveShutdownStatus' = STATUS_FILE_CLOSED
    /\ SendShutdown' = SendShutdownAfter(SendShutdown, msg[tcur.t].Error, msg[tcur.t].b)
    /\ Complete(msg[tcur.t])
    /\ UNCHANGED <<SocketContext, PacketQueue, ReceiveShutdown, Lock, heapVars, readerVars,
                   notes, pcbLife, engineVars, ret, mbox, TerminationEvent, staleRun, calls>>
    /\ UNCHANGED reassVars

\* ------------------------------------------------------------ Socket, Bind, Listen, Connect
\* LibTCPSocketCallback (lines 313-328): tcp_new gives a pcb or NULL.
LibTCPSocketCallback ==
    /\ tpc = "Socket"
    /\ ~tcur.stale
    /\ \E new \in {NULL, PCB} :
         /\ notes' = <<Called("tcp_new", <<>>)>>
         /\ Complete([msg[tcur.t] EXCEPT !.NewPcb = new])
    /\ UNCHANGED <<connVars, heapVars, readerVars, pcbLife, engineVars, ret, mbox,
                   TerminationEvent, staleRun, calls>>
    /\ UNCHANGED reassVars

\* LibTCPBindCallback (lines 358-380).
LibTCPBindCallback ==
    /\ tpc = "Bind"
    /\ ~tcur.stale
    /\ IF SocketContext = NULL
       THEN /\ Complete([msg[tcur.t] EXCEPT !.Error = ERR_CLSD])
            /\ UNCHANGED notes
       ELSE \E r \in {ERR_OK, ERR_USE} :
              /\ notes' = <<Answered("tcp_bind", <<SocketContext>>, r)>>
              /\ Complete([msg[tcur.t] EXCEPT !.Error = r])
    /\ UNCHANGED <<connVars, heapVars, readerVars, pcbLife, engineVars, ret, mbox,
                   TerminationEvent, staleRun, calls>>
    /\ UNCHANGED reassVars

\* LibTCPListenCallback (lines 413-434).
LibTCPListenCallback ==
    /\ tpc = "Listen"
    /\ ~tcur.stale
    /\ IF SocketContext = NULL
       THEN /\ Complete([msg[tcur.t] EXCEPT !.NewPcb = NULL])
            /\ UNCHANGED notes
       ELSE \E new \in {NULL, PCB} :
              /\ notes' = <<Called("tcp_listen_with_backlog", <<SocketContext>>)>>
              /\ Complete([msg[tcur.t] EXCEPT !.NewPcb = new])
    /\ UNCHANGED <<connVars, heapVars, readerVars, pcbLife, engineVars, ret, mbox,
                   TerminationEvent, staleRun, calls>>
    /\ UNCHANGED reassVars

\* LibTCPConnectCallback (lines 563-587): a connect the engine has begun is in progress.
LibTCPConnectCallback ==
    /\ tpc = "Connect"
    /\ ~tcur.stale
    /\ IF SocketContext = NULL
       THEN /\ Complete([msg[tcur.t] EXCEPT !.Error = ERR_CLSD])
            /\ UNCHANGED notes
       ELSE \E r \in {ERR_OK, ERR_MEM} :
              /\ notes' = <<Answered("tcp_connect", <<SocketContext>>, r)>>
              /\ Complete([msg[tcur.t] EXCEPT
                     !.Error = IF r = ERR_OK THEN ERR_INPROGRESS ELSE r])
    /\ UNCHANGED <<connVars, heapVars, readerVars, pcbLife, engineVars, ret, mbox,
                   TerminationEvent, staleRun, calls>>
    /\ UNCHANGED reassVars

\* ------------------------------------------------------------ the engine
\* The engine moves the connection to another state of tcp_state_str (lines 8-20); it
\* does so in the tcpip thread, between two callbacks.
EngineStateChange(state) ==
    /\ tpc = "idle"
    /\ state # pcbState
    /\ pcbState' = state
    /\ UNCHANGED <<connVars, heapVars, readerVars, tcpipVars, sndbuf, bridgeVars>>
    /\ UNCHANGED reassVars

\* ------------------------------------------------------------ IP reassembly
\* The connection and the bridge take no part in the reassembly of datagrams.
bridgeUnchanged ==
    UNCHANGED <<connVars, heapVars, readerVars, tcpipVars, engineVars, bridgeVars>>

\* The fragment list of a datagram has no hole left.
Reassembled(frags) == frags = FragmentOffsets

\* A fragment of datagram id arrives that brings bytes not yet received: the IPDR is
\* looked up or created, the fragment is stored and the timeout counter is reset.  A
\* datagram without holes is handed on and its IPDR and fragments are freed.
onFragmentArrival(id, off) ==
    LET frags == Fragments[id] \cup {off}
    IN /\ off \notin Fragments[id]
       /\ sweepsSince' = [sweepsSince EXCEPT ![id] = 0]
       /\ TimeoutCount' = [TimeoutCount EXCEPT ![id] = 0]
       /\ IF Reassembled(frags)
          THEN /\ ReassemblyList' = ReassemblyList \ {id}
               /\ Fragments' = [Fragments EXCEPT ![id] = {}]
               /\ fragsInUse' = fragsInUse - Cardinality(Fragments[id])
          ELSE /\ ReassemblyList' = ReassemblyList \cup {id}
               /\ Fragments' = [Fragments EXCEPT ![id] = frags]
               /\ fragsInUse' = fragsInUse + 1
       /\ bridgeUnchanged

\* A timeout counter that destroys the IPDR one sweep later.
ExpiredLate(count) == count > MAX_TIMEOUT_COUNT

\* The counter has reached the number of periods before the IPDR is destroyed.
Expired(count) == count >= MAX_TIMEOUT_COUNT

\* The IPDRs that a sweep destroys: their incremented counter has expired.
Evicted == {id \in ReassemblyList : Expired(TimeoutCount[id] + 1)}

\* The descriptors on the fragment lists of the IPDRs in ids.
RECURSIVE FragmentsOf(_)
FragmentsOf(ids) ==
    IF ids = {} THEN 0
    ELSE LET id == CHOOSE i \in ids : TRUE
         IN Cardinality(Fragments[id]) + FragmentsOf(ids \ {id})

\* One sweep of the reassembly timer: the counter of every IPDR is incremented; an
\* IPDR whose counter has expired is taken off the list and freed with its fragments.
IPDatagramReassemblyTimeout ==
    /\ ReassemblyList # {}
    /\ ReassemblyList' = ReassemblyList \ Evicted
    /\ TimeoutCount' = [id \in Idents |->
                           IF id \in ReassemblyList \ Evicted
                           THEN TimeoutCount[id] + 1 ELSE TimeoutCount[id]]
    /\ Fragments' = [id \in Idents |-> IF id \in Evicted THEN {} ELSE Fragments[id]]
    /\ fragsInUse' = fragsInUse - FragmentsOf(Evicted)
    /\ sweepsSince' = [id \in Idents |->
                          IF id \in ReassemblyList
                          THEN sweepsSince[id] + 1 ELSE sweepsSince[id]]
    /\ bridgeUnchanged

\* ------------------------------------------------------------ the queue alone
\* A live connection after open: nothing queued, no flag set, a send window of space
\* bytes.
Opened(space) ==
    /\ SocketContext = PCB
    /\ PacketQueue = <<>>
    /\ ReceiveShutdown = FALSE
    /\ ReceiveShutdownStatus = STATUS_SUCCESS
    /\ SendShutdown = FALSE
    /\ Lock = "none"
    /\ pbufs = <<>>
    /\ freeCount = <<>>
    /\ rpc = "idle"
    /\ RecvLen = 0 /\ Received = 0 /\ RecvBuffer = <<>>
    /\ qp = NoEntry /\ p = NULL /\ ReadLength = 0 /\ Offset = 0
    /\ Status = STATUS_UNINIT
    /\ delivered = 0
    /\ assertFailed = {}
    /\ uaf = FALSE
    /\ tpc = "idle"
    /\ tcur = NoCur
    /\ notes = <<>>
    /\ pcbLife = "open"
    /\ pcbState = "ESTABLISHED"
    /\ sndbuf = space
    /\ cpc = [t \in Threads |-> "idle"]
    /\ msg = [t \in Threads |-> NoMsg]
    /\ wake = [t \in Threads |-> FALSE]
    /\ ret = [t \in Threads |-> NoRet]
    /\ mbox = <<>>
    /\ TerminationEvent = FALSE
    /\ staleRun = FALSE
    /\ calls = 0
    /\ ReassemblyList = {}
    /\ Fragments = [id \in Idents |-> {}]
    /\ TimeoutCount = [id \in Idents |-> 0]
    /\ fragsInUse = 0
    /\ sweepsSince = [id \in Idents |-> 0]

\* The window of a new connection is open.
Init == Opened(MaxWindow)

\* A connection whose window earlier sends have filled in part or wholly.
InitSend == \E space \in 0..MaxWindow : Opened(space)

\* Segment sizes and buffer sizes of the reads that are checked.
ReadSegLens == (1..MaxSegLen) \cup {5, 7}
ReadLens == (1..MaxRecvLen) \cup {10}

Reader ==
    \/ \E len \in 0..MaxRecvLen : GetData_Begin(len)
    \/ GetData_Dequeue
    \/ GetData_PushBack
    \/ GetData_Copy

RecvEvents ==
    \/ \E arg \in {NULL, PCB}, len \in 1..MaxSegLen : InternalRecvEventHandler_Data(arg, len)
    \/ \E arg \in {NULL, PCB}, err \in {ERR_OK, ERR_MEM} : InternalRecvEventHandler_Null(arg, err)
    \/ InternalRecvEventHandler_Status

ErrorEvents ==
    \/ \E arg \in {NULL, PCB}, err \in FatalErrs : InternalErrorEventHandler(arg, err)
    \/ InternalErrorEventHandler_Flag
    \/ InternalErrorEventHandler_Status

NextQueue == Reader \/ RecvEvents \/ ErrorEvents

SpecQueue == Init /\ [][NextQueue]_vars

\* ------------------------------------------------------------ specifications
\* A caller waits for its request and returns.
Callers == \E t \in Threads : Wait(t) \/ Return(t)

\* Reads and arriving data only.
NextRead ==
    \/ \E len \in ReadLens : GetData_Begin(len)
    \/ GetData_Dequeue
    \/ GetData_PushBack
    \/ GetData_Copy
    \/ \E len \in ReadSegLens : InternalRecvEventHandler_Data(PCB, len)
SpecRead == Init /\ [][NextRead]_vars

\* Reads on a connection whose two directions are shut down by calls, by the peer and
\* by fatal errors.  The segments have one byte, so that no read takes a part of one.
NextShut ==
    \/ \E len \in {1, MaxRecvLen} : GetData_Begin(len)
    \/ GetData_Dequeue
    \/ GetData_Copy
    \/ InternalRecvEventHandler_Data(PCB, 1)
    \/ InternalRecvEventHandler_Null(PCB, ERR_OK)
    \/ InternalRecvEventHandler_Status
    \/ \E err \in FatalErrs : InternalErrorEventHandler(PCB, err)
    \/ InternalErrorEventHandler_Flag
    \/ InternalErrorEventHandler_Status
    \/ \E rx, tx \in 0..1 : LibTCPShutdown(1, rx, tx)
    \/ Wait(1)
    \/ Return(1)
    \/ tcpip_thread
    \/ LibTCPShutdownCallback
    \/ LibTCPShutdownCallback_Status
SpecShut == Init /\ [][NextShut]_vars

\* Reads, arriving data and Close.
NextClose ==
    \/ \E len \in {1, MaxRecvLen} : GetData_Begin(len)
    \/ GetData_Dequeue
    \/ GetData_PushBack
    \/ GetData_Copy
    \/ \E len \in {1, MaxSegLen} : InternalRecvEventHandler_Data(PCB, len)
    \/ \E safe \in BOOLEAN : LibTCPClose(1, safe, 1)
    \/ Wait(1)
    \/ Return(1)
    \/ tcpip_thread
    \/ LibTCPCloseCallback
    \/ LibTCPEmptyQueue
    \/ LibTCPCloseCallback_Rest
SpecClose == Init /\ [][NextClose]_vars

\* The calls that need the handle, one after the other, in every state of the engine's
\* connection.
NextHandle ==
    \/ LibTCPBind(1)
    \/ LibTCPListen(1)
    \/ LibTCPConnect(1)
    \/ \E rx, tx \in 0..1 : LibTCPShutdown(1, rx, tx)
    \/ \E callback \in 0..1 : LibTCPClose(1, FALSE, callback)
    \/ LibTCPSend(1, MaxSendLen, FALSE)
    \/ Wait(1)
    \/ Return(1)
    \/ tcpip_thread
    \/ LibTCPSendCallback
    \/ LibTCPBindCallback
    \/ LibTCPListenCallback
    \/ LibTCPConnectCallback
    \/ LibTCPShutdownCallback
    \/ LibTCPShutdownCallback_Status
    \/ LibTCPCloseCallback
    \/ LibTCPEmptyQueue
    \/ LibTCPCloseCallback_Rest
    \/ \E state \in TcpStates : EngineStateChange(state)
SpecHandle == Init /\ [][NextHandle]_vars

\* One state of the engine's connection for each way the bodies of Close and Shutdown
\* take: closed at once, closed or aborted by the flags, and severed by a Shutdown.
LifeStates == {"LISTEN", "ESTABLISHED", "CLOSE_WAIT"}

\* Every operation of the bridge from one thread, queued and inline, and every callback
\* of the engine, in every state of the engine's connection.
NextLife ==
    \/ LibTCPSocket(1)
    \/ LibTCPBind(1)
    \/ LibTCPListen(1)
    \/ LibTCPConnect(1)
    \/ \E safe \in BOOLEAN : LibTCPSend(1, MaxSendLen, safe)
    \/ \E rx, tx \in 0..1 : LibTCPShutdown(1, rx, tx)
    \/ \E safe \in BOOLEAN : LibTCPClose(1, safe, 1)
    \/ Wait(1)
    \/ Return(1)
    \/ tcpip_thread
    \/ LibTCPSocketCallback
    \/ LibTCPBindCallback
    \/ LibTCPListenCallback
    \/ LibTCPConnectCallback
    \/ LibTCPSendCallback
    \/ LibTCPShutdownCallback
    \/ LibTCPShutdownCallback_Status
    \/ LibTCPCloseCallback
    \/ LibTCPEmptyQueue
    \/ LibTCPCloseCallback_Rest
    \/ \E state \in LifeStates : EngineStateChange(state)
    \/ InternalRecvEventHandler_Data(PCB, 1)
    \/ InternalRecvEventHandler_Null(PCB, ERR_OK)
    \/ InternalRecvEventHandler_Status
    \/ \E err \in FatalErrs : InternalErrorEventHandler(PCB, err)
    \/ InternalErrorEventHandler_Flag
    \/ InternalErrorEventHandler_Status
    \/ InternalSendEventHandler(PCB, MaxWindow)
SpecLife == Init /\ [][NextLife]_vars

\* Reads, arriving data, the close of the peer, and a Close of the local side.
NextFin ==
    \/ \E len \in {1, MaxRecvLen} : GetData_Begin(len)
    \/ GetData_Dequeue
    \/ GetData_Copy
    \/ InternalRecvEventHandler_Data(PCB, 1)
    \/ \E err \in {ERR_OK, ERR_MEM} : InternalRecvEventHandler_Null(PCB, err)
    \/ InternalRecvEventHandler_Status
    \/ LibTCPClose(1, FALSE, 0)
    \/ Wait(1)
    \/ Return(1)
    \/ tcpip_thread
    \/ LibTCPCloseCallback
    \/ LibTCPEmptyQueue
    \/ LibTCPCloseCallback_Rest
SpecFin == Init /\ [][NextFin]_vars

\* Fragments arrive and the timer sweeps.
NextReassembly ==
    \/ \E id \in Idents, off \in FragmentOffsets : onFragmentArrival(id, off)
    \/ IPDatagramReassemblyTimeout
SpecReassembly == Init /\ [][NextReassembly]_vars

\* Threads are alike: thread t makes its first call when the threads before it have
\* made theirs.
InTurn(t) == \A u \in Threads : u < t => cpc[u] # "idle"

\* The steps of the tcpip thread that serve Send and Close: it takes a queued callback
\* and runs a body to its end.
EngineSteps ==
    \/ tcpip_thread
    \/ StaleCallback
    \/ LibTCPSendCallback
    \/ LibTCPCloseCallback
    \/ LibTCPEmptyQueue
    \/ LibTCPCloseCallback_Rest

\* Send and Close, the two calls that have both variants, queued and inline, and the
\* end of the stack; the tcpip thread keeps running while it has work, and a thread
\* that can go on with its call does so.
NextLive ==
    \/ \E t \in Threads :
         /\ InTurn(t)
         /\ \/ \E safe \in BOOLEAN : LibTCPSend(t, MaxSendLen, safe)
            \/ \E safe \in BOOLEAN : LibTCPClose(t, safe, 1)
    \/ Callers
    \/ EngineSteps
    \/ Terminate
SpecLive ==
    /\ Init
    /\ [][NextLive]_vars
    /\ WF_vars(EngineSteps)
    /\ \A t \in Threads : WF_vars(Wait(t) \/ Return(t))

\* Sends against a send window that the engine opens and the sends fill.
NextSend ==
    \/ \E t \in Threads :
         /\ InTurn(t)
         /\ \/ \E len \in 1..MaxSendLen, safe \in BOOLEAN : LibTCPSend(t, len, safe)
            \/ LibTCPShutdown(t, 0, 1)
            \/ NoMemory(t, "Send")
    \/ Callers
    \/ tcpip_thread
    \/ LibTCPSendCallback
    \/ LibTCPShutdownCallback
    \/ \E space \in 1..MaxWindow : InternalSendEventHandler(PCB, space)
SpecSend == InitSend /\ [][NextSend]_vars

\* The seven calls from several threads, queued for the tcpip thread, and the end of
\* the stack.
NextTerm ==
    \/ \E t \in Threads :
         /\ InTurn(t)
         /\ \/ LibTCPSocket(t)
            \/ LibTCPBind(t)
            \/ LibTCPListen(t)
            \/ LibTCPConnect(t)
            \/ LibTCPSend(t, MaxSendLen, FALSE)
            \/ LibTCPShutdown(t, 1, 1)
            \/ LibTCPClose(t, FALSE, 1)
    \/ Callers
    \/ tcpip_thread
    \/ StaleCallback
    \/ LibTCPSocketCallback
    \/ LibTCPBindCallback
    \/ LibTCPListenCallback
    \/ LibTCPConnectCallback
    \/ LibTCPSendCallback
    \/ LibTCPShutdownCallback
    \/ LibTCPShutdownCallback_Status
    \/ LibTCPCloseCallback
    \/ LibTCPEmptyQueue
    \/ LibTCPCloseCallback_Rest
    \/ Terminate
SpecTerm == Init /\ [][NextTerm]_vars

\* Calls in both variants, queued and run by the caller, and the end of the stack.
NextInline ==
    \/ \E t \in Threads :
         /\ InTurn(t)
         /\ \/ LibTCPSocket(t)
            \/ \E safe \in BOOLEAN : LibTCPSend(t, MaxSendLen, safe)
            \/ \E safe \in BOOLEAN : LibTCPClose(t, safe, 1)
    \/ Callers
    \/ tcpip_thread
    \/ StaleCallback
    \/ LibTCPSocketCallback
    \/ LibTCPSendCallback
    \/ LibTCPCloseCallback
    \/ LibTCPEmptyQueue
    \/ LibTCPCloseCallback_Rest
    \/ Terminate
SpecInline == Init /\ [][NextInline]_vars

\* ------------------------------------------------------------ properties of the read
\* A step in which a read that took entries from the queue returns to its caller.
ReadReturns == rpc \in {"dequeue", "copy"} /\ rpc' = "done"

\* The sizes of the segments that have arrived, in arrival order.
SegmentSizes == [i \in 1..Len(pbufs) |-> pbufs[i].tot_len]

\* C1: a read of a non-empty queue with a buffer of L > 0 bytes, by the only reader,
\* returns success with exactly min(L, unconsumed bytes queued) bytes: it stops only
\* with a full buffer or a drained queue.  The bytes are the next bytes of the stream in
\* arrival order, the queue keeps exactly the bytes that follow them (consumed segments
\* are gone, a partly consumed one is the head with its offset advanced), and after
\* segments of 5, 3 and 7 bytes a 10-byte read yields bytes 1..10 and leaves the third
\* segment at offset 2, from where the next read yields the last 5 bytes.
C1_ReadContract ==
    [][ReadReturns =>
          /\ Status' = STATUS_SUCCESS
          /\ Received' > 0
          /\ Received' = MIN(RecvLen + Received, Received' + QueueBytes(PacketQueue))
          /\ RecvBuffer' = Run(delivered, Received')
          /\ delivered' = delivered + Received'
          /\ QueueStream(PacketQueue') = Run(delivered', TotalBytes - delivered')
          /\ \A i \in 1..Len(PacketQueue') :
                /\ PacketQueue'[i].Offset < pbufs[PacketQueue'[i].p].tot_len
                /\ i > 1 => PacketQueue'[i].Offset = 0
          /\ (SegmentSizes = <<5, 3, 7>> /\ delivered = 0 /\ RecvLen' + Received' = 10)
                => /\ Received' = 10
                   /\ PacketQueue' = <<[p |-> 3, Offset |-> 2]>>
          /\ (SegmentSizes = <<5, 3, 7>> /\ delivered = 10 /\ RecvLen' + Received' = 10)
                => /\ Received' = 5
                   /\ RecvBuffer' = <<11, 12, 13, 14, 15>>
                   /\ PacketQueue' = <<>>
    ]_vars

\* Segments of 5, 3 and 7 bytes have arrived and the first read, with a 10-byte buffer,
\* has returned 10 bytes; the rest of the third segment is the head of the queue.
C1_Witness ==
    /\ rpc = "done"
    /\ SegmentSizes = <<5, 3, 7>>
    /\ Received = 10
    /\ delivered = 10
    /\ RecvBuffer = Run(0, 10)
    /\ PacketQueue = <<[p |-> 3, Offset |-> 2]>>

\* A step in which a read returns to its caller.
ReadEnds == rpc' = "done" /\ readerVars' # readerVars

\* A step in which a read that found the queue empty returns.
EmptyRead == rpc \in {"idle", "done"} /\ rpc' = "done" /\ readerVars' # readerVars

\* The statuses a deferred fatal error stores.
ErrorStatuses == {TCPTranslateError(err) : err \in FatalErrs}

\* C2: the fatal-error callback on a live connection delivers TCPFinEventHandler at once
\* when the queue is empty; when it is not, it delivers no terminal notification, stores
\* the read-shutdown flag and the translated status and notifies 'data available'.  In
\* every interleaving with the reader the reads return the bytes of the stream in order,
\* the queue keeps every byte not yet returned, and a read returns an error status only
\* when it found the queue empty, with 0 bytes and after every byte that ever arrived
\* was returned.
C2_ErrorDeferred ==
    [][/\ \A err \in FatalErrs :
             InternalErrorEventHandler(PCB, err) =>
                IF PacketQueue = <<>>
                THEN /\ notes' = <<FinEvent(err)>>
                     /\ tpc' = "idle"
                     /\ UNCHANGED <<ReceiveShutdown, ReceiveShutdownStatus>>
                ELSE /\ \A i \in 1..Len(notes') : notes'[i][1] # "TCPFinEventHandler"
                     /\ tpc' = "err_flag"
                     /\ tcur'.err = err
       /\ (tpc = "err_flag" /\ tpc' # tpc) => (ReceiveShutdown' /\ tpc' = "err_status")
       /\ (tpc = "err_status" /\ tpc' # tpc) =>
             /\ ReceiveShutdown'
             /\ ReceiveShutdownStatus' = TCPTranslateError(tcur.err)
             /\ notes' = <<RecvEvent>>
             /\ tpc' = "idle"
       /\ ReadEnds =>
             /\ RecvBuffer' = Run(delivered, Received')
             /\ QueueStream(PacketQueue') = Run(delivered', TotalBytes - delivered')
             /\ Status' \in ErrorStatuses =>
                   /\ EmptyRead
                   /\ Received' = 0
                   /\ PacketQueue = <<>>
                   /\ delivered' = TotalBytes
                   /\ ReceiveShutdown
    ]_vars

\* A fatal error met queued data and was deferred; the reader has since got every byte
\* that had arrived, and its next read, on the empty queue, has returned the error.
C2_Witness ==
    /\ pcbLife = "dead"
    /\ tpc = "idle"
    /\ notes = <<RecvEvent>>
    /\ ReceiveShutdown
    /\ rpc = "done"
    /\ Status \in ErrorStatuses
    /\ Received = 0
    /\ TotalBytes > 1
    /\ delivered = TotalBytes
    /\ PacketQueue = <<>>

\* The terminal statuses: success after the peer's close, the translated error after a
\* deferred fatal error, file-closed after a local shutdown of the receive side.
TerminalStatuses == {STATUS_SUCCESS, STATUS_FILE_CLOSED} \cup ErrorStatuses

\* C8: a read on an empty queue copies 0 bytes; it returns STATUS_PENDING when the
\* read-shutdown flag is not set, also when the write-shutdown flag is set, and the
\* stored terminal status when the read-shutdown flag is set.
C8_EmptyRead ==
    [][EmptyRead =>
          /\ PacketQueue = <<>>
          /\ Received' = 0
          /\ RecvBuffer' = <<>>
          /\ ~ReceiveShutdown => Status' = STATUS_PENDING
          /\ ReceiveShutdown => (Status' = ReceiveShutdownStatus /\ Status' \in TerminalStatuses)
    ]_vars

\* C8 as the specification states it, for either shutdown flag: STATUS_PENDING with no
\* flag set, the stored terminal status with a flag set.
C8_AnyFlag ==
    [][EmptyRead =>
          /\ Received' = 0
          /\ (~ReceiveShutdown /\ ~SendShutdown) => Status' = STATUS_PENDING
          /\ (ReceiveShutdown \/ SendShutdown) =>
                (Status' = ReceiveShutdownStatus /\ Status' # STATUS_PENDING)
    ]_vars

\* Only the send side is shut down, by a Shutdown call that has returned Ok, and a read
\* on the empty queue has returned STATUS_PENDING with no byte.
C8_Witness ==
    /\ SendShutdown
    /\ ~ReceiveShutdown
    /\ ret[1].op = "Shutdown"
    /\ ret[1].err = ERR_OK
    /\ PacketQueue = <<>>
    /\ rpc = "done"
    /\ Status = STATUS_PENDING
    /\ Received = 0
    /\ RecvLen > 0

\* ------------------------------------------------------------ properties of Close
\* The last handler the tcpip thread ran is the body of a Close, and it has ended.
CloseBodyDone ==
    /\ tpc = "idle"
    /\ notes # <<>>
    /\ notes[1] = Called("LibTCPEmptyQueue", <<>>)

\* C3: after the body of a Close has run, and with no read under way, the queue is
\* empty and every segment that ever arrived has been freed exactly once, with or
\* without a handle and whatever the engine answered to the close.
C3_CloseEmpties ==
    (CloseBodyDone /\ rpc \in {"idle", "done"}) =>
        /\ PacketQueue = <<>>
        /\ \A i \in 1..Len(pbufs) : freeCount[i] = 1

\* A step in which the body of a Close ends: lines 700-745 have run.
CloseBodyEnds == tpc = "close_rest" /\ tpc' = "idle"

\* The engine functions among the entries n.
Functions(n) == {n[i][1] : i \in 1..Len(n)}

\* A step in which a call of operation op returns to its caller.
CallReturns(t, op) == msg[t].op = op /\ cpc[t] # "done" /\ cpc'[t] = "done"

\* C9: when the body of a Close finds a handle and the engine close reports an error,
\* the handle after the body is the handle before it; when the close or abort succeeds
\* the handle is null.  When the handle is null already the body answers Ok, calls no
\* engine function and leaves the handle null.  The call returns the answer of the body.
C9_CloseHandle ==
    [][/\ CloseBodyEnds =>
            LET Error == msg'[tcur.t].Error
            IN IF SocketContext = NULL
               THEN /\ Error = ERR_OK
                    /\ notes' = notes
                    /\ SocketContext' = NULL
               ELSE /\ Error # ERR_OK => SocketContext' = SocketContext
                    /\ Error = ERR_OK => SocketContext' = NULL
                    /\ Functions(notes') \cap {"tcp_close", "tcp_abort"} # {}
                    /\ tcur.pcb = SocketContext
       /\ (CallReturns(1, "Close") /\ msg[1].Event) => ret'[1].err = msg[1].Error
    ]_vars

\* A Close on a connection with a handle has returned the engine's error, and the
\* connection still has its handle.
C9_Witness ==
    /\ CloseBodyDone
    /\ notes[Len(notes)] = Answered("tcp_close", <<PCB>>, ERR_MEM)
    /\ ret[1].op = "Close"
    /\ ret[1].err = ERR_MEM
    /\ SocketContext = PCB

\* C10: the body of a Close that finds a handle aborts the engine's connection and
\* answers Ok when both shutdown flags are set and the connection is in none of the
\* states CLOSED, LISTEN and SYN_SENT; in these three states, and whenever a flag is
\* not set, it calls tcp_close and answers what tcp_close answered.
C10_CloseTeardown ==
    [][(CloseBodyEnds /\ SocketContext # NULL) =>
          LET Error == msg'[tcur.t].Error
          IN IF /\ SendShutdown
                /\ ReceiveShutdown
                /\ pcbState \notin {"CLOSED", "LISTEN", "SYN_SENT"}
             THEN /\ Called("tcp_abort", <<SocketContext>>) = notes'[Len(notes')]
                  /\ "tcp_close" \notin Functions(notes')
                  /\ Error = ERR_OK
             ELSE /\ \E i \in 1..Len(notes') :
                        notes'[i] = Answered("tcp_close", <<SocketContext>>, Error)
                  /\ "tcp_abort" \notin Functions(notes')
    ]_vars

\* C10 as the specification states it: with both flags set the body aborts in every
\* state of the engine's connection.
C10_EveryState ==
    [][(CloseBodyEnds /\ SocketContext # NULL) =>
          LET Error == msg'[tcur.t].Error
          IN IF SendShutdown /\ ReceiveShutdown
             THEN /\ "tcp_abort" \in Functions(notes')
                  /\ "tcp_close" \notin Functions(notes')
                  /\ Error = ERR_OK
             ELSE /\ \E i \in 1..Len(notes') :
                        notes'[i] = Answered("tcp_close", <<SocketContext>>, Error)
                  /\ "tcp_abort" \notin Functions(notes')
    ]_vars

\* Both directions were shut down and the connection was aborted by a Close that
\* returned Ok.
C10_Witness ==
    /\ CloseBodyDone
    /\ notes[Len(notes)] = Called("tcp_abort", <<PCB>>)
    /\ SendShutdown
    /\ ReceiveShutdown
    /\ SocketContext = NULL
    /\ ret[1].op = "Close"
    /\ ret[1].err = ERR_OK

\* ------------------------------------------------------------ properties of Send
\* A step in which the body of a Send ends.
SendBodyEnds == tpc = "Send" /\ tpc' = "idle" /\ ~tcur.stale

\* The connection can take a send: it has its handle and its send side is not shut down.
CanSend == SocketContext # NULL /\ ~SendShutdown

\* C6: the body of every Send that finds the live, not write-shut connection with a
\* send window of zero answers ERR_INPROGRESS, calls no engine function and leaves the
\* handle, the flags, the queue and the window as they are; the call returns
\* ERR_INPROGRESS with *sent = 0, from however many threads the sends come.
C6_ZeroWindow ==
    [][/\ (SendBodyEnds /\ CanSend /\ sndbuf = 0) =>
             /\ msg'[tcur.t].Error = ERR_INPROGRESS
             /\ notes' = <<>>
             /\ UNCHANGED <<connVars, heapVars, engineVars>>
       /\ \A t \in Threads :
             (CallReturns(t, "Send") /\ msg[t].Error = ERR_INPROGRESS) =>
                 /\ ret'[t].err = ERR_INPROGRESS
                 /\ ret'[t].sent = 0
    ]_vars

\* The window is zero and the bodies of the sends of all threads, which were under way
\* together, have answered ERR_INPROGRESS; the connection is as it was.
C6_Witness ==
    /\ sndbuf = 0
    /\ CanSend
    /\ PacketQueue = <<>>
    /\ ~ReceiveShutdown
    /\ notes = <<>>
    /\ \A t \in Threads :
          /\ cpc[t] = "woken"
          /\ msg[t].op = "Send"
          /\ msg[t].Error = ERR_INPROGRESS

\* C7: the body of a Send of len bytes that finds the live, not write-shut connection
\* with a window W > 0 calls tcp_write once, with the start of the caller's buffer,
\* min(len, W) bytes and the flag MORE exactly when W < len; when tcp_write answers
\* ERR_OK the call returns ERR_OK with *sent = min(len, W), and a call that returns
\* anything else returns *sent = 0.
C7_WindowPrefix ==
    [][/\ (SendBodyEnds /\ CanSend /\ sndbuf > 0) =>
             LET len == msg[tcur.t].a
                 W == sndbuf
                 n == IF len < W THEN len ELSE W
                 flags == IF W < len THEN TCP_WRITE_FLAG_MORE ELSE TCP_WRITE_FLAG_COPY
             IN \E r \in WriteResults :
                   /\ notes'[1] = Answered("tcp_write", <<Data, n, flags>>, r)
                   /\ \A i \in 2..Len(notes') : notes'[i][1] # "tcp_write"
                   /\ r = ERR_OK => /\ msg'[tcur.t].Error = ERR_OK
                                    /\ msg'[tcur.t].Info = n
                   /\ r # ERR_OK => msg'[tcur.t].Error # ERR_OK
       /\ \A t \in Threads :
             CallReturns(t, "Send") =>
                 /\ ret'[t].err = msg[t].Error
                 /\ ret'[t].sent = IF ret'[t].err = ERR_OK THEN msg[t].Info ELSE 0
    ]_vars

\* A Send of more bytes than the window had has written the window's worth with the
\* flag MORE and has returned ERR_OK with that count.
C7_Witness ==
    /\ notes = <<Answered("tcp_write", <<Data, MaxWindow, TCP_WRITE_FLAG_MORE>>, ERR_OK),
                 Called("tcp_output", <<>>)>>
    /\ \E t \in Threads :
          /\ cpc[t] = "done"
          /\ ret[t].op = "Send"
          /\ ret[t].err = ERR_OK
          /\ ret[t].sent = MaxWindow

\* ------------------------------------------------------------ properties of the end
\* The call returned "closed": ERR_CLSD, or no pcb from Socket and Listen.
IsClosed(r) == IF r.op \in {"Socket", "Listen"} THEN r.pcb = NULL ELSE r.err = ERR_CLSD

\* The call returned what its body left in the request m.
IsResultOf(r, m) ==
    IF m.op \in {"Socket", "Listen"} THEN r.pcb = m.NewPcb
    ELSE /\ r.err = m.Error
         /\ m.op = "Send" => r.sent = IF m.Error = ERR_OK THEN m.Info ELSE 0

\* A step in which a call with a request returns to its caller.
Returns(t) == msg[t].live /\ cpc[t] # "done" /\ cpc'[t] = "done"

\* C4: when TerminationEvent is signalled, every thread that is blocked in a call on a
\* request the engine has not completed is woken, and its call returns "closed"; the
\* request is then still where it was, queued for the tcpip thread or in its hands.
C4_EndWakesAll ==
    [][/\ (~TerminationEvent /\ TerminationEvent') =>
             \A t \in Threads :
                 cpc[t] = "blocked" => (cpc'[t] = "woken" /\ ~wake'[t] /\ ~msg'[t].Event)
       /\ \A t \in Threads :
             (cpc[t] = "woken" /\ ~wake[t] /\ Returns(t)) =>
                 /\ TerminationEvent
                 /\ IsClosed(ret'[t])
                 /\ ret'[t].op = msg[t].op
                 /\ ~msg[t].Event =>
                       \/ \E i \in 1..Len(mbox') : mbox'[i].t = t /\ mbox'[i].stale
                       \/ tcur'.t = t /\ tcur'.stale
    ]_vars

\* Every thread was blocked on a request of its own, none of which the tcpip thread
\* has taken, and TerminationEvent has ended all the waits.
C4_Witness ==
    /\ TerminationEvent
    /\ Len(mbox) = NumCallers
    /\ \A t \in Threads : cpc[t] = "woken" /\ ~wake[t] /\ ~msg[t].Event

\* C5: once TerminationEvent is signalled, a call whose own event is not signalled when
\* its wait is evaluated, or that was blocked then, returns "closed"; a call whose body
\* has ended before its wait is evaluated returns the result of the body, and this is
\* so for every inline Send and Close.
C5_AfterEnd ==
    [][\A t \in Threads :
          (TerminationEvent /\ Returns(t)) =>
              LET woke == IF cpc[t] = "woken" THEN wake[t] ELSE msg[t].Event
              IN /\ ~woke => IsClosed(ret'[t])
                 /\ woke => IsResultOf(ret'[t], msg[t])
                 /\ msg[t].safe => woke
    ]_vars

\* C5 as the specification states it: once TerminationEvent is signalled, every call
\* that began afterwards, and every call whose body had not ended before, returns
\* "closed".
C5_AlwaysClosed ==
    [][\A t \in Threads :
          (/\ TerminationEvent
           /\ Returns(t)
           /\ msg[t].afterEnd \/ ~msg[t].Event \/ msg[t].doneAfterEnd) =>
              IsClosed(ret'[t])
    ]_vars

\* An inline Send that began after TerminationEvent was signalled has returned ERR_OK
\* and the count of the bytes it wrote.
C5_Witness ==
    /\ TerminationEvent
    /\ \E t \in Threads :
          /\ cpc[t] = "done"
          /\ ret[t].afterEnd
          /\ ret[t].op = "Send"
          /\ ret[t].err = ERR_OK
          /\ ret[t].sent > 0

\* ------------------------------------------------------------ more properties of Close
\* C11: the body of a Close that finds a handle calls TCPFinEventHandler, once and with
\* ERR_CLSD, exactly when the notification was requested, the engine's connection is in
\* one of the states CLOSED, LISTEN and SYN_SENT and tcp_close answered ERR_OK; in every
\* other state, after tcp_close as after tcp_abort, and whenever the close failed or no
\* notification was requested, the body calls no TCPFinEventHandler.
C11_CloseNotifies ==
    [][(CloseBodyEnds /\ SocketContext # NULL) =>
          LET m == msg'[tcur.t]
              fins == {i \in 1..Len(notes') : notes'[i][1] = "TCPFinEventHandler"}
          IN IF /\ m.b # 0
                /\ m.Error = ERR_OK
                /\ pcbState \in {"CLOSED", "LISTEN", "SYN_SENT"}
             THEN /\ Cardinality(fins) = 1
                  /\ notes'[Len(notes')] = FinEvent(ERR_CLSD)
                  /\ SocketContext' = NULL
             ELSE fins = {}
    ]_vars

\* C11 as the specification states it: a Close that was asked to notify and succeeds
\* calls TCPFinEventHandler in every state and after tcp_close as after tcp_abort.
C11_EveryState ==
    [][(CloseBodyEnds /\ SocketContext # NULL) =>
          LET m == msg'[tcur.t]
          IN ("TCPFinEventHandler" \in Functions(notes')) <=> (m.b # 0 /\ m.Error = ERR_OK)
    ]_vars

\* A Close that was asked to notify has closed a listening connection and has called
\* TCPFinEventHandler; the call returned Ok and the handle is null.
C11_Witness ==
    /\ CloseBodyDone
    /\ pcbState = "LISTEN"
    /\ notes[Len(notes)] = FinEvent(ERR_CLSD)
    /\ SocketContext = NULL
    /\ ret[1].op = "Close"
    /\ ret[1].err = ERR_OK

\* ------------------------------------------------------------ properties of Shutdown
\* A step of the body of a Shutdown that found a handle: its first part, which calls
\* tcp_shutdown, and its second part, which follows a successful shutdown of the
\* receive side.
ShutdownBodyBegins == tpc = "Shutdown" /\ tpc' # tpc /\ ~tcur.stale /\ SocketContext # NULL
ShutdownBodyGoesOn == tpc = "shut_status" /\ tpc' # tpc /\ ~tcur.stale

\* C12: when tcp_shutdown answers ERR_OK the body sets ReceiveShutdown, with the status
\* STATUS_FILE_CLOSED, exactly when shut_rx was given, and SendShutdown exactly when
\* shut_tx was given; the flag of a direction that was not asked for, and the status
\* when shut_rx was not given, keep their values.  When tcp_shutdown answers an error,
\* the flags, the status and the handle are after the body what they were before.
C12_ShutdownFlags ==
    [][/\ ShutdownBodyBegins =>
             LET m == msg[tcur.t]
                 Error == msg'[tcur.t].Error
             IN IF Error # ERR_OK
                THEN /\ tpc' = "idle"
                     /\ UNCHANGED <<ReceiveShutdown, ReceiveShutdownStatus, SendShutdown,
                                    SocketContext>>
                ELSE /\ ReceiveShutdown' = (ReceiveShutdown \/ m.a # 0)
                     /\ IF m.a # 0
                        THEN tpc' = "shut_status" /\ msg'[tcur.t].b = m.b
                        ELSE /\ tpc' = "idle"
                             /\ SendShutdown' = (SendShutdown \/ m.b # 0)
                             /\ UNCHANGED ReceiveShutdownStatus
       /\ ShutdownBodyGoesOn =>
             /\ msg[tcur.t].Error = ERR_OK
             /\ msg[tcur.t].a # 0
             /\ ReceiveShutdown /\ ReceiveShutdown'
             /\ ReceiveShutdownStatus' = STATUS_FILE_CLOSED
             /\ SendShutdown' = (SendShutdown \/ msg[tcur.t].b # 0)
             /\ tpc' = "idle"
    ]_vars

\* A Shutdown of the send side alone was refused by the engine: the call has returned
\* the error and no flag is set.
C12_Witness ==
    /\ notes = <<Answered("tcp_shutdown", <<PCB, 0, 1>>, ERR_CONN)>>
    /\ ret[1].op = "Shutdown"
    /\ ret[1].err = ERR_CONN
    /\ ~SendShutdown
    /\ ~ReceiveShutdown
    /\ SocketContext = PCB

\* ------------------------------------------------------------ properties of the handle
\* A step in which the body of operation op ends.
BodyEnds(op) == tpc = op /\ tpc' = "idle" /\ ~tcur.stale

\* The operations whose body answers with an err_t and needs the handle.
ErrOps == {"Bind", "Connect", "Send", "Shutdown"}

\* C13: a Shutdown that finds the engine's connection in CLOSE_WAIT and succeeds leaves
\* the handle null, whichever directions it was given; when it fails the handle is what
\* it was.  A null handle stays null, and on it the bodies of Bind, Connect, Send and
\* Shutdown answer ERR_CLSD, the body of Listen answers no pcb and the body of Close
\* answers ERR_OK, as after a Close that succeeded; the calls return these answers.
C13_ShutdownSevers ==
    [][/\ (ShutdownBodyBegins /\ pcbState = "CLOSE_WAIT") =>
             IF msg'[tcur.t].Error = ERR_OK
             THEN SocketContext' = NULL
             ELSE SocketContext' = SocketContext
       /\ SocketContext = NULL =>
             /\ SocketContext' = NULL
             /\ \A op \in ErrOps : BodyEnds(op) => msg'[tcur.t].Error = ERR_CLSD
             /\ BodyEnds("Listen") => msg'[tcur.t].NewPcb = NULL
             /\ CloseBodyEnds => msg'[tcur.t].Error = ERR_OK
             /\ \A op \in ErrOps \cup {"Close"} :
                   (CallReturns(1, op) /\ msg[1].Event) => ret'[1].err = msg[1].Error
             /\ (CallReturns(1, "Listen") /\ msg[1].Event) => ret'[1].pcb = NULL
    ]_vars

\* The first call, a Shutdown of the send side in CLOSE_WAIT, succeeded and left the
\* handle null; the second call, a Bind, has returned ERR_CLSD.
C13_Witness ==
    /\ calls = 2
    /\ pcbState = "CLOSE_WAIT"
    /\ SendShutdown
    /\ ~ReceiveShutdown
    /\ SocketContext = NULL
    /\ ret[1].op = "Bind"
    /\ ret[1].err = ERR_CLSD

\* C14: a null handle stays null in every step of every operation and callback.  The
\* handle is written only by the bodies of Close and Shutdown, and a body leaves it
\* non-null only when it found it non-null and the engine answered an error (or, for a
\* Shutdown, when the engine's connection was not in CLOSE_WAIT): it is then the value
\* the body read when it began.
C14_HandleNeverBack ==
    [][/\ SocketContext = NULL => SocketContext' = NULL
       /\ SocketContext' # SocketContext => (CloseBodyEnds \/ ShutdownBodyBegins)
       /\ (CloseBodyEnds /\ SocketContext # NULL) =>
             /\ tcur.pcb = SocketContext
             /\ SocketContext' # NULL =>
                   (msg'[tcur.t].Error # ERR_OK /\ SocketContext' = tcur.pcb)
       /\ (ShutdownBodyBegins /\ SocketContext' # NULL) =>
             /\ SocketContext' = SocketContext
             /\ msg'[tcur.t].Error # ERR_OK \/ pcbState # "CLOSE_WAIT"
    ]_vars

\* A Close has severed the handle, and a later Shutdown, which found it null, has
\* returned ERR_CLSD and left it null.
C14_Witness ==
    /\ calls = 2
    /\ SocketContext = NULL
    /\ pcbState # "CLOSE_WAIT"
    /\ cpc[1] = "done"
    /\ ret[1].op = "Shutdown"
    /\ ret[1].err = ERR_CLSD
    /\ pcbLife = "open"

\* C15: a body of Bind, Connect, Send or Shutdown that finds the handle null answers
\* ERR_CLSD, and a body of Listen answers no pcb; it calls no engine function and leaves
\* the connection, its queue and the engine's connection as they are.  So does the body
\* of a Send that finds the send side shut down.  The call returns ERR_CLSD, or NULL
\* from Listen.  This is so also when the handle was severed after the call was made.
C15_SeveredOps ==
    [][/\ \A op \in ErrOps \cup {"Listen"} :
             (BodyEnds(op) /\ (SocketContext = NULL \/ (op = "Send" /\ SendShutdown))) =>
                 /\ IF op = "Listen" THEN msg'[tcur.t].NewPcb = NULL
                    ELSE msg'[tcur.t].Error = ERR_CLSD
                 /\ msg'[tcur.t].Event
                 /\ notes' = <<>>
                 /\ UNCHANGED <<connVars, heapVars, engineVars>>
       /\ \A t \in Threads :
             Returns(t) =>
                 /\ (msg[t].op \in ErrOps /\ msg[t].Error = ERR_CLSD) =>
                       ret'[t].err = ERR_CLSD
                 /\ (msg[t].op = "Listen" /\ msg[t].NewPcb = NULL) => ret'[t].pcb = NULL
    ]_vars

\* While the Close of one thread was under way, and before its caller has returned,
\* the Bind of another thread has found the handle null and has returned ERR_CLSD.
C15_Witness ==
    /\ ~TerminationEvent
    /\ SocketContext = NULL
    /\ \E t, u \in Threads :
          /\ cpc[t] = "done"
          /\ ret[t].op = "Bind"
          /\ ret[t].err = ERR_CLSD
          /\ cpc[u] = "woken"
          /\ msg[u].op = "Close"
          /\ msg[u].Error = ERR_OK

\* ------------------------------------------------------------ properties of the callbacks
\* C16: InternalRecvEventHandler without payload and with ERR_OK, on a live connection,
\* sets ReceiveShutdown and stores STATUS_SUCCESS, then makes one notification,
\* TCPRecvEventHandler when SocketContext is not null and TCPFinEventHandler when it
\* is; from then on a read that finds the queue empty returns STATUS_SUCCESS with no
\* byte.  Without payload and with an error it changes nothing and notifies nothing.
C16_PeerClosed ==
    [][/\ InternalRecvEventHandler_Null(PCB, ERR_OK) =>
             /\ ReceiveShutdown'
             /\ tpc' = "recv_status"
             /\ notes' = <<>>
       /\ (tpc = "recv_status" /\ tpc' # tpc) =>
             /\ ReceiveShutdown /\ ReceiveShutdown'
             /\ ReceiveShutdownStatus' = STATUS_SUCCESS
             /\ Len(notes') = 1
             /\ notes'[1] = IF SocketContext # NULL THEN RecvEvent ELSE FinEvent(ERR_CLSD)
             /\ tpc' = "idle"
       /\ InternalRecvEventHandler_Null(PCB, ERR_MEM) =>
             /\ notes' = <<>>
             /\ tpc' = "idle"
             /\ UNCHANGED <<connVars, heapVars>>
       /\ (EmptyRead /\ pcbLife = "fin" /\ tpc = "idle") =>
             /\ Status' = STATUS_SUCCESS
             /\ Received' = 0
    ]_vars

\* The peer has closed a connection that still has its handle: "data available" was
\* notified, the reader has got the queued byte, and its next read has returned
\* STATUS_SUCCESS with no byte.
C16_Witness ==
    /\ pcbLife = "fin"
    /\ tpc = "idle"
    /\ notes = <<RecvEvent>>
    /\ SocketContext = PCB
    /\ ReceiveShutdown
    /\ delivered > 0
    /\ delivered = TotalBytes
    /\ rpc = "done"
    /\ Status = STATUS_SUCCESS
    /\ Received = 0

\* ------------------------------------------------------------ every call returns
\* A call of thread t is under way.
InCall(t) == cpc[t] \in {"inline", "issued", "blocked", "woken"}

\* C17: every call returns.  A queued call returns only when its body has ended or
\* TerminationEvent is signalled, no thread stays blocked once one of the two is so,
\* and with a tcpip thread that keeps running no call stays under way: time and again
\* each thread is outside a call, and a call that is under way ends only by returning.
\* An inline Send or Close queues nothing for the tcpip thread: its body is under way
\* in the caller's name from the moment of the call, and the call returns.
C17_CallsReturn ==
    /\ \A t \in Threads : []<>(~InCall(t))
    /\ [](\A t \in Threads :
             /\ cpc[t] = "blocked" => (~msg[t].Event /\ ~TerminationEvent)
             /\ cpc[t] = "inline" =>
                   /\ msg[t].safe
                   /\ tpc # "idle"
                   /\ tcur.t = t
                   /\ \A i \in 1..Len(mbox) : mbox[i].t = t => mbox[i].stale)
    /\ [][\A t \in Threads :
             /\ Returns(t) => (msg[t].Event \/ TerminationEvent)
             /\ (cpc[t] # "inline" /\ cpc'[t] = "inline") => mbox' = mbox
             /\ (msg'[t].safe /\ msg'[t].live) => cpc'[t] \in {"inline", "issued"}
             /\ (InCall(t) /\ cpc'[t] # cpc[t]) =>
                   cpc'[t] \in {"issued", "blocked", "woken", "done"}
         ]_vars

\* With TerminationEvent not signalled, the queued Send of one thread has returned
\* what its body answered, and the body of the inline Close of another has ended with
\* nothing queued and the tcpip thread idle: the Close is about to return.
C17_Witness ==
    /\ ~TerminationEvent
    /\ mbox = <<>>
    /\ tpc = "idle"
    /\ \E t, u \in Threads :
          /\ cpc[t] = "done" /\ ret[t].op = "Send" /\ ret[t].err = ERR_OK
          /\ cpc[u] = "issued" /\ msg[u].op = "Close" /\ msg[u].safe /\ msg[u].Event

CopyWindow == rpc = "copy" /\ rpc' = "copy"

\* C19: while the reader copies from a segment with the lock released, a step of
\* another party removes no entry of the queue (it may add at the tail) and does not
\* free the buffer the reader copies from.
C19_SingleRemover ==
    [][CopyWindow =>
          /\ Len(PacketQueue') >= Len(PacketQueue)
          /\ SubSeq(PacketQueue', 1, Len(PacketQueue)) = PacketQueue
          /\ freeCount'[p] = freeCount[p]
      ]_vars

\* A step of the reader, and a step that is the fatal-error handler's test of the list.
ReaderStep == rpc' # rpc
ErrorTestStep == \E err \in FatalErrs : InternalErrorEventHandler(PCB, err)

\* C20: the list of the queue changes only with the lock held: a step of the reader
\* that changes it is made by the reader holding the lock, and a step of the tcpip
\* thread that changes it or tests it for the fatal-error handler is made when nobody
\* else holds the lock.
C20_LockDiscipline ==
    [][/\ PacketQueue' # PacketQueue =>
              IF ReaderStep THEN Lock = "reader" ELSE Lock = "none"
       /\ ErrorTestStep => Lock = "none"
      ]_vars

\* ------------------------------------------------------------ arriving data
\* C21: the data-arrival callback with a payload on a live connection appends the
\* payload at the tail of the queue with offset 0, then acknowledges its full length to
\* the engine, then notifies 'data available', and does nothing else; with a null
\* connection argument it frees the payload, enqueues nothing and notifies nothing.
\* In every interleaving of arrivals and reads the bytes of a read, while it copies and
\* when it has returned, are the bytes of the stream that follow those of the reads
\* before it, and never more than have arrived.
C21_DataArrival ==
    /\ [][\A arg \in {NULL, PCB}, len \in 1..MaxSegLen :
             InternalRecvEventHandler_Data(arg, len) =>
                IF arg # NULL
                THEN LET id == Len(pbufs) + 1
                     IN /\ PacketQueue' = PacketQueue \o <<[p |-> id, Offset |-> 0]>>
                        /\ pbufs'[id] = [first |-> TotalBytes, tot_len |-> len]
                        /\ freeCount'[id] = 0
                        /\ notes' = <<Enqueued(id), Recved(len), RecvEvent>>
                ELSE /\ PacketQueue' = PacketQueue
                     /\ notes' = <<PbufFreed>>
                     /\ TotalBytes' = TotalBytes
         ]_vars
    /\ [](LET before == IF rpc = "done" THEN delivered - Received ELSE delivered
          IN /\ RecvBuffer = Run(before, Len(RecvBuffer))
             /\ before + Len(RecvBuffer) <= TotalBytes
             /\ delivered <= TotalBytes)

\* A segment has arrived while a read was copying from the first one, which it had
\* pushed back: the new segment is behind it in the queue, and the read then returned
\* the first byte of the stream.
C21_Witness ==
    /\ Len(pbufs) = 2
    /\ notes = <<Enqueued(2), Recved(pbufs[2].tot_len), RecvEvent>>
    /\ PacketQueue = <<[p |-> 1, Offset |-> 1], [p |-> 2, Offset |-> 0]>>
    /\ rpc = "done"
    /\ RecvBuffer = <<1>>
    /\ delivered = 1

\* ------------------------------------------------------------ the life of a request
\* A step in which the request of thread t goes back to MessageLookasideList.
Released(t) == msg[t].live /\ ~msg'[t].live

\* C22: the request of a call is released once, by the call when it returns, and never
\* while its body is queued for the tcpip thread or running in it: no queued callback
\* and no running body has a released request, and the tcpip thread has never run a
\* body on one.
C22_RequestLifetime ==
    /\ [](/\ \A i \in 1..Len(mbox) : ~mbox[i].stale
          /\ ~tcur.stale
          /\ ~staleRun)
    /\ [][\A t \in Threads :
             /\ Released(t) => (Returns(t) /\ msg'[t] = NoMsg)
             /\ Returns(t) => Released(t)
         ]_vars

\* ------------------------------------------------------------ the assertions of the read
\* A step in which the reader puts a partly read entry back as the head.
PushesBack == rpc = "pushback" /\ rpc' = "copy"

\* C23: with one reader, whatever has arrived and was read before and whatever the
\* length of the buffer, zero included, no ASSERT of the read fails: the length read
\* from an entry is not zero, an entry is put back only when the buffer is full after
\* it, every queued entry has an offset below the length of its segment, and a read
\* that took entries returns success with at least one byte, so that success with no
\* byte is returned only from an empty queue after a graceful close.
C23_Assertions ==
    /\ [](/\ assertFailed = {}
          /\ \A i \in 1..Len(PacketQueue) :
                PacketQueue[i].Offset < pbufs[PacketQueue[i].p].tot_len)
    /\ [][/\ PushesBack => (ReadLength # 0 /\ RecvLen - ReadLength = 0)
          /\ ReadReturns => (Status' = STATUS_SUCCESS /\ Received' # 0)
          /\ (ReadEnds /\ Status' = STATUS_SUCCESS /\ Received' = 0) =>
                (PacketQueue = <<>> /\ ReceiveShutdown
                   /\ ReceiveShutdownStatus = STATUS_SUCCESS)
         ]_vars

====
